---------------------------- MODULE Spec2Model ----------------------------
(***************************************************************************)
(* A model of the Random generator of contest-tools (src/src/random.h):    *)
(* the ChaCha block function, the nonce derivation of the constructor, the *)
(* two-level reservoir behind bits(n), the entropy-recycling ranged draw   *)
(* uniform_uint64 with its signed and narrow entry points, and shuffle.    *)
(*                                                                         *)
(* The generator is modelled at reduced widths so that TLC can enumerate   *)
(* every word of keystream and every (range, value) pair of the sampler:   *)
(* a keystream word has WordBits bits (uint32_t in the source), a number   *)
(* has NumBits = 2 * WordBits bits (uint64_t), a block has WordsPerBlock   *)
(* words (16) and the block counter wraps at CounterMod (2^64).  All the   *)
(* arithmetic keeps its width: every shift and sum is taken modulo the     *)
(* width of its C++ type.  The output of chacha<20> inside the generator   *)
(* is left open: every refill may deliver any block, so what holds of the  *)
(* model holds for every keystream.  The block function itself is modelled *)
(* bit for bit at its real width (SpecChaCha).  A second generator, built  *)
(* from the same label and test id and given the same calls, runs beside   *)
(* the first (twin).  SpecBits follows histories of calls of bits alone,   *)
(* long enough to pass the wrap of the block counter.                      *)
(***************************************************************************)
EXTENDS Integers, Sequences, FiniteSets, TLC

\* ------------------------------------------------------------- widths
\* uint32_t: the width of a keystream word and of m_bits_buffer (scaled).
WordBits == 2
\* uint64_t: the width of a result of bits(), of m_number_buffer and of
\* m_number_range.  bits(n) rejects n > NumBits.
NumBits == 2 * WordBits
\* array<uint32_t, 16>: the words of one block (scaled).
WordsPerBlock == 2
\* The block counter is a uint64_t: it wraps at 2^64 (scaled).
CounterBits == 2
CounterMod == 2 ^ CounterBits

\* ------------------------------------------------------------- bounds
\* API calls made on one generator in one behaviour.
MaxCalls == 2
\* Calls of the block function in one behaviour.
MaxBlocks == 5

WordMod == 2 ^ WordBits
NumMod == 2 ^ NumBits
Words == 0 .. WordMod - 1
UInt64 == 0 .. NumMod - 1
Counters == 0 .. CounterMod - 1
Blocks == [0 .. WordsPerBlock - 1 -> Words]
ZeroBlock == [i \in 0 .. WordsPerBlock - 1 |-> 0]

\* ------------------------------------------------------- bit operations
RECURSIVE BitOr(_, _)
\* a | b on naturals.
BitOr(a, b) ==
    IF a = 0 THEN b
    ELSE IF b = 0 THEN a
    ELSE (IF a % 2 = 1 \/ b % 2 = 1 THEN 1 ELSE 0) + 2 * BitOr(a \div 2, b \div 2)

RECURSIVE BitAnd(_, _)
\* a & b on naturals.
BitAnd(a, b) ==
    IF a = 0 \/ b = 0 THEN 0
    ELSE (IF a % 2 = 1 /\ b % 2 = 1 THEN 1 ELSE 0) + 2 * BitAnd(a \div 2, b \div 2)

\* x << k in a type of `width` bits: the bits shifted out are lost.
Shl(x, k, width) == (x * 2 ^ k) % 2 ^ width

\* x >> k.
Shr(x, k) == x \div 2 ^ k

RECURSIVE BitLength(_)
\* The number of bits of x: 0 for 0, 1 + floor(log2 x) otherwise.
BitLength(x) == IF x = 0 THEN 0 ELSE 1 + BitLength(x \div 2)

\* A count of leading zeros that may also answer 0 for a nonzero argument.
clzll_loose(x) == IF x = 0 THEN 0 .. NumBits - 1 ELSE {0, NumBits - BitLength(x)}

\* A count of leading zeros that stops one short.
clzll_short(x) ==
    IF x = 0 THEN 0 .. NumBits - 1
    ELSE {IF NumBits - BitLength(x) > 0 THEN NumBits - BitLength(x) - 1 ELSE 0}

\* __builtin_clzll(x): the leading zero bits of x in NumBits bits.  The
\* builtin's result is undefined for 0: there the model allows any count.
clzll(x) == IF x = 0 THEN 0 .. NumBits - 1 ELSE {NumBits - BitLength(x)}

\* ------------------------------------------------------ the generator
VARIABLES
    pc,                 \* "new": not constructed; "idle": between calls;
                        \* "loop": inside the for (;;) of uniform_uint64;
                        \* "dead": the constructor threw
    m_nonce,
    m_counter,
    m_word_buffer,
    m_word_buffer_next,
    m_bits_buffer,
    m_num_bits,
    m_number_buffer,
    m_number_range,
    call,               \* the frame of the call in progress
    ret,                \* what the last call returned or threw
    handed,             \* ghost: the sum of n over the bits(n) that returned
    passed,             \* ghost: the counters passed to chacha, in order
    calls,              \* ghost: the API calls made so far
    twin,               \* a second generator, constructed from the same
                        \* (problem_name, test_id) and given the same calls
    cc,                 \* one call of chacha<20>, round by round
    rd                  \* a Reader, its file, and its last call

genvars == <<m_nonce, m_counter, m_word_buffer, m_word_buffer_next,
             m_bits_buffer, m_num_bits, m_number_buffer, m_number_range>>
vars == <<pc, m_nonce, m_counter, m_word_buffer, m_word_buffer_next,
          m_bits_buffer, m_num_bits, m_number_buffer, m_number_range,
          call, ret, handed, passed, calls, twin, cc, rd>>

\* The Random object as a record, for the operators that model its methods.
Self ==
    [m_nonce |-> m_nonce, m_counter |-> m_counter,
     m_word_buffer |-> m_word_buffer, m_word_buffer_next |-> m_word_buffer_next,
     m_bits_buffer |-> m_bits_buffer, m_num_bits |-> m_num_bits,
     m_number_buffer |-> m_number_buffer, m_number_range |-> m_number_range]

\* The member initialisers of class Random, with the nonce the constructor
\* body assigns.
NewRandom(nonce) ==
    [m_nonce |-> nonce, m_counter |-> 0,
     m_word_buffer |-> ZeroBlock, m_word_buffer_next |-> WordsPerBlock,
     m_bits_buffer |-> 0, m_num_bits |-> 0,
     m_number_buffer |-> 0, m_number_range |-> 1]

\* The frame of a call: the entry point and its arguments, the arguments
\* (lo, n) of the uniform_uint64 loop it is in, and for shuffle the array
\* v, the array as passed (orig), the index i and the draws made (js).
NoCall ==
    [op |-> "none", min |-> 0, max |-> 0, lo |-> 0, n |-> 0,
     v |-> <<>>, orig |-> <<>>, i |-> 0, js |-> <<>>]
NoRet == [kind |-> "none", value |-> 0]
Value(v) == [kind |-> "value", value |-> v]
Thrown(what) == [kind |-> what, value |-> 0]

\* ------------------------------------------------------- chacha<20>
\* The block function at its real width.  A uint32_t is a pair <<high
\* half, low half>> of 16-bit numbers, a uint64_t a pair <<high word, low
\* word>> of those; an array is a function on 0 .. size - 1.
Half == 65536

RECURSIVE BitXor(_, _)
BitXor(a, b) ==
    IF a = 0 THEN b
    ELSE IF b = 0 THEN a
    ELSE ((a + b) % 2) + 2 * BitXor(a \div 2, b \div 2)

\* uint32_t +, ^, |, << and >> (the shifts for 0 < k < 32).
Add32(a, b) ==
    <<(a[1] + b[1] + (a[2] + b[2]) \div Half) % Half, (a[2] + b[2]) % Half>>
Xor32(a, b) == <<BitXor(a[1], b[1]), BitXor(a[2], b[2])>>
Or32(a, b) == <<BitOr(a[1], b[1]), BitOr(a[2], b[2])>>
Shl32(x, k) ==
    IF k >= 16 THEN <<(x[2] * 2 ^ (k - 16)) % Half, 0>>
    ELSE <<(x[1] * 2 ^ k + x[2] \div 2 ^ (16 - k)) % Half, (x[2] * 2 ^ k) % Half>>
Shr32(x, k) ==
    IF k >= 16 THEN <<0, x[1] \div 2 ^ (k - 16)>>
    ELSE <<x[1] \div 2 ^ k, x[2] \div 2 ^ k + (x[1] % 2 ^ k) * 2 ^ (16 - k)>>

\* static_cast<uint32_t>(v) and static_cast<uint32_t>(v >> 32) of a uint64_t.
Low32(v) == v[2]
High32(v) == v[1]
\* The uint64_t of a number below 2^31.
ToUInt64(v) == <<<<0, 0>>, <<v \div Half, v % Half>>>>

\* A rotation that drops the bits shifted out at the top.
rotate_left_open(bits_, x) == Shl32(x, bits_)

\* rotate_left<bits>(x): (x << bits) | (x >> (32 - bits)).
rotate_left(bits_, x) == Or32(Shl32(x, bits_), Shr32(x, 32 - bits_))

\* quarter_round(a, b, c, d): the four words after the call.
quarter_round(a, b, c, d) ==
    LET a1 == Add32(a, b)
        d1 == rotate_left(16, Xor32(d, a1))
        c1 == Add32(c, d1)
        b1 == rotate_left(12, Xor32(b, c1))
        a2 == Add32(a1, b1)
        d2 == rotate_left(8, Xor32(d1, a2))
        c2 == Add32(c1, d2)
        b2 == rotate_left(7, Xor32(b1, c2))
    IN  <<a2, b2, c2, d2>>

\* quarter_round(x[i], x[j], x[k], x[l]) on the array x.
quarter_round_at(x, i, j, k, l) ==
    LET q == quarter_round(x[i], x[j], x[k], x[l])
    IN  [x EXCEPT ![i] = q[1], ![j] = q[2], ![k] = q[3], ![l] = q[4]]

\* "expand 32-byte k": 0x61707865, 0x3320646e, 0x79622d32, 0x6b206574.
sigma == <<<<24944, 30821>>, <<13088, 25710>>, <<31074, 11570>>, <<27424, 25972>>>>

\* The input block of chacha: constants, key, counter, nonce.
chacha_input(key_, nonce, counter) ==
    [i \in 0 .. 15 |->
        IF i < 4 THEN sigma[i + 1]
        ELSE IF i < 12 THEN key_[i - 3]
        ELSE IF i = 12 THEN Low32(counter)
        ELSE IF i = 13 THEN High32(counter)
        ELSE IF i = 14 THEN Low32(nonce)
        ELSE High32(nonce)]

\* The four column quarter-rounds of a double round.
column_round(x) ==
    quarter_round_at(quarter_round_at(quarter_round_at(quarter_round_at(
        x, 0, 4, 8, 12), 1, 5, 9, 13), 2, 6, 10, 14), 3, 7, 11, 15)

\* The four diagonal quarter-rounds of a double round.
diagonal_round(x) ==
    quarter_round_at(quarter_round_at(quarter_round_at(quarter_round_at(
        x, 0, 5, 10, 15), 1, 6, 11, 12), 2, 7, 8, 13), 3, 4, 9, 14)

\* x[i] += input[i] for every i.
add_input(x, input) == [i \in 0 .. 15 |-> Add32(x[i], input[i])]

\* The template argument of the calls chacha<20>.
rounds == 20

\* The key of the repository.
key ==
    <<
        <<53998, 29592>>, <<49558, 15708>>, <<43604, 55240>>, <<23973, 42376>>,
        <<29585, 26767>>, <<15329, 5348>>, <<2015, 52393>>, <<20563, 48316>>
    >>

\* The key, nonce, counter and expected output of test_chacha.
test_key ==
    <<
        <<45505, 28356>>, <<30888, 59532>>, <<59191, 23154>>, <<13751, 57216>>,
        <<12013, 26655>>, <<64377, 19481>>, <<57790, 44742>>, <<23959, 26534>>
    >>
test_nonce == <<<<8578, 26831>>, <<54577, 55834>>>>
test_counter == ToUInt64(1)
expected_output ==
    LET e == <<
                <<20163, 64485>>, <<43481, 41312>>, <<23348, 6107>>, <<13863, 16394>>,
                <<4345, 15237>>, <<61885, 24752>>, <<10678, 38904>>, <<14545, 271>>,
                <<36940, 11438>>, <<60073, 23330>>, <<62744, 54548>>, <<41182, 10585>>,
                <<27770, 51864>>, <<10002, 59087>>, <<58500, 15365>>, <<12851, 19098>>
              >>
    IN  [i \in 0 .. 15 |-> e[i + 1]]

NoChaCha ==
    [stage |-> "none", key |-> <<>>, nonce |-> <<>>, counter |-> <<>>,
     input |-> <<>>, x |-> <<>>, double_round |-> 0]

\* ------------------------------------------------- Random::Random
\* Labels are strings of bytes; test ids are uint32_t.  The shifts and the
\* byte width are those of the source.
MaxNameLen == 4
NonceShift == 4

RECURSIVE nonce_loop_wide(_, _, _)
\* A constructor loop that shifts each byte one bit further.
nonce_loop_wide(problem_name, i, nonce) ==
    IF i > Len(problem_name) THEN [ok |-> TRUE, nonce |-> nonce]
    ELSE IF problem_name[i] = 0 THEN [ok |-> FALSE, nonce |-> nonce]
    ELSE nonce_loop_wide(problem_name, i + 1,
                         BitOr(nonce, problem_name[i] * 2 ^ (NonceShift + i)))

RECURSIVE nonce_loop(_, _, _)
\* The for loop of the constructor from index i (1-based here): the nonce
\* with each byte OR-ed in at bit 4 + (i - 1), or "invalid" at a zero byte.
nonce_loop(problem_name, i, nonce) ==
    IF i > Len(problem_name) THEN [ok |-> TRUE, nonce |-> nonce]
    ELSE IF problem_name[i] = 0 THEN [ok |-> FALSE, nonce |-> nonce]
    ELSE nonce_loop(problem_name, i + 1,
                    BitOr(nonce, problem_name[i] * 2 ^ (NonceShift + (i - 1))))

\* A constructor whose length check is off by one.
Random_ctor_long(problem_name, test_id) ==
    IF Len(problem_name) > MaxNameLen + 1 THEN [ok |-> FALSE, nonce |-> 0]
    ELSE nonce_loop(problem_name, 1, test_id)

\* Random::Random(problem_name, test_id).
Random_ctor(problem_name, test_id) ==
    IF Len(problem_name) > MaxNameLen THEN [ok |-> FALSE, nonce |-> 0]
    ELSE nonce_loop(problem_name, 1, test_id)

\* ------------------------------------------------- Random::bits
\* chacha<20>(key, m_nonce, counter) as the generator sees it: the key and
\* the nonce are fixed for a generator's lifetime, so the keystream is a
\* function of the counter.  A keystream F is given by the blocks it holds
\* from counter F.base on (F.fresh, in counter order, wrapping at CounterMod).
chacha_block(F, nonce, counter) ==
    F.fresh[((counter - F.base) % CounterMod) + 1]

\* Lines 165-166: m_word_buffer = chacha<20>(key, m_nonce, m_counter++);
\* m_word_buffer_next = 0.
refill_words(G, F) ==
    [G EXCEPT !.m_word_buffer = chacha_block(F, G.m_nonce, G.m_counter),
              !.m_counter = (G.m_counter + 1) % CounterMod,
              !.m_word_buffer_next = 0]

\* A take_word that leaves the cursor where it is.
take_word_stuck(G) ==
    [G EXCEPT !.m_bits_buffer = G.m_word_buffer[G.m_word_buffer_next],
              !.m_num_bits = WordBits]

\* A take_word that counts one bit more than the word holds.
take_word_over(G) ==
    [G EXCEPT !.m_bits_buffer = G.m_word_buffer[G.m_word_buffer_next],
              !.m_word_buffer_next = G.m_word_buffer_next + 1,
              !.m_num_bits = WordBits + 1]

\* Lines 172-173: m_bits_buffer = m_word_buffer[m_word_buffer_next++];
\* m_num_bits = 32.
take_word(G) ==
    [G EXCEPT !.m_bits_buffer = G.m_word_buffer[G.m_word_buffer_next],
              !.m_word_buffer_next = G.m_word_buffer_next + 1,
              !.m_num_bits = WordBits]

\* Lines 158-159: result <<= m_num_bits; result |= m_bits_buffer.
drain(G, result) ==
    BitOr(Shl(result, G.m_num_bits, NumBits), G.m_bits_buffer)

\* A take_low that hands the low bits out and leaves them in the word.
take_low_keep(G, n, result) ==
    [G |-> [G EXCEPT !.m_num_bits = G.m_num_bits - n],
     result |-> BitOr(Shl(result, n, NumBits),
                      BitAnd(G.m_bits_buffer, (Shl(1, n, WordBits) + WordMod - 1) % WordMod))]

\* A take_low whose mask is 1 << n instead of (1 << n) - 1.
take_low_wide(G, n, result) ==
    [G |-> [G EXCEPT !.m_bits_buffer = Shr(G.m_bits_buffer, n),
                     !.m_num_bits = G.m_num_bits - n],
     result |-> BitOr(Shl(result, n, NumBits),
                      BitAnd(G.m_bits_buffer, Shl(1, n, WordBits)))]

\* A take_low whose right shift keeps the top bit of the word, as the
\* shift of a signed word does.
take_low_stale(G, n, result) ==
    [G |-> [G EXCEPT !.m_bits_buffer =
                         BitOr(Shr(G.m_bits_buffer, n),
                               BitAnd(G.m_bits_buffer, WordMod \div 2)),
                     !.m_num_bits = G.m_num_bits - n],
     result |-> BitOr(Shl(result, n, NumBits),
                      BitAnd(G.m_bits_buffer, (Shl(1, n, WordBits) + WordMod - 1) % WordMod))]

\* Lines 176-179, with n < m_num_bits: the low n bits of the reservoir word
\* go to the low end of the result and leave the word.
take_low(G, n, result) ==
    [G |-> [G EXCEPT !.m_bits_buffer = Shr(G.m_bits_buffer, n),
                     !.m_num_bits = G.m_num_bits - n],
     result |-> BitOr(Shl(result, n, NumBits),
                      BitAnd(G.m_bits_buffer, (Shl(1, n, WordBits) + WordMod - 1) % WordMod))]

RECURSIVE bits_loop(_, _, _, _, _)
\* The while loop of bits and the lines after it.  `fed` collects the
\* counters passed to chacha by this call.
bits_loop(G, n, result, F, fed) ==
    IF n >= G.m_num_bits THEN
        IF G.m_word_buffer_next = WordsPerBlock THEN
            LET G1 == refill_words(G, F)
            IN  IF G1.m_counter = 0 THEN
                    [G |-> G1, thrown |-> "runtime_error", result |-> 0,
                     fed |-> Append(fed, G.m_counter)]
                ELSE
                    bits_loop(take_word(G1), n - G.m_num_bits, drain(G, result),
                              F, Append(fed, G.m_counter))
        ELSE
            bits_loop(take_word(G), n - G.m_num_bits, drain(G, result), F, fed)
    ELSE
        LET t == take_low(G, n, result)
        IN  [G |-> t.G, thrown |-> "none", result |-> t.result, fed |-> fed]

\* A bits that does not check its argument.
bits_unchecked(G, n, F) == bits_loop(G, n, 0, F, <<>>)

\* A bits that empties the reservoir when it refuses its argument.
bits_reset(G, n, F) ==
    IF n > NumBits THEN
        [G |-> [G EXCEPT !.m_bits_buffer = 0, !.m_num_bits = 0],
         thrown |-> "invalid_argument", result |-> 0, fed |-> <<>>]
    ELSE bits_loop(G, n, 0, F, <<>>)

\* Random::bits(n) on generator G with keystream F: the generator after the
\* call, what was thrown, the result, and the counters passed to chacha.
bits(G, n, F) ==
    IF n > NumBits THEN
        [G |-> G, thrown |-> "invalid_argument", result |-> 0, fed |-> <<>>]
    ELSE bits_loop(G, n, 0, F, <<>>)

\* The keystreams that differ where a call on G reads them: the call passes
\* the next k counters to chacha, and each may return any block.
ZeroStream(G) == [base |-> G.m_counter, fresh |-> [i \in 1 .. CounterMod |-> ZeroBlock]]
Streams(G, k) ==
    {[base |-> G.m_counter, fresh |-> fresh] : fresh \in [1 .. k -> Blocks]}

\* How many blocks bits(n) on G asks of chacha (whatever they hold).
Refills(G, n) == Len(bits(G, n, ZeroStream(G)).fed)

\* ------------------------------------------- Random::uniform_uint64
\* A partition that also accepts the values of the partial group.
partition_inclusive(range, buffer, n) ==
    LET num_groups == range \div n
        group == buffer \div n
        in_group == buffer % n
    IN  IF group <= num_groups
        THEN [accept |-> TRUE, in_group |-> in_group,
              m_number_range |-> num_groups, m_number_buffer |-> group]
        ELSE [accept |-> FALSE, in_group |-> in_group,
              m_number_range |-> range % n, m_number_buffer |-> in_group]

\* A partition whose rejection retains the whole value.
partition_keep(range, buffer, n) ==
    LET num_groups == range \div n
        group == buffer \div n
    IN  IF group < num_groups
        THEN [accept |-> TRUE, in_group |-> buffer % n,
              m_number_range |-> num_groups, m_number_buffer |-> group]
        ELSE [accept |-> FALSE, in_group |-> buffer % n,
              m_number_range |-> range % n, m_number_buffer |-> buffer]

\* A partition that gives up the last full group.
partition_short(range, buffer, n) ==
    LET num_groups == range \div n
        group == buffer \div n
    IN  IF group + 1 < num_groups
        THEN [accept |-> TRUE, in_group |-> buffer % n,
              m_number_range |-> num_groups, m_number_buffer |-> group]
        ELSE [accept |-> FALSE, in_group |-> buffer % n,
              m_number_range |-> range % n, m_number_buffer |-> buffer % n]

\* Lines 216-227: one partition of [0, range) into groups of n values.  The
\* draw is accepted with output in_group when the value falls in a full
\* group; the pair retained is (num_groups, group) then, and
\* (small_group, in_group) when it is rejected.
partition(range, buffer, n) ==
    LET num_groups == range \div n
        small_group == range % n
        group == buffer \div n
        in_group == buffer % n
    IN  IF group < num_groups
        THEN [accept |-> TRUE, in_group |-> in_group,
              m_number_range |-> num_groups, m_number_buffer |-> group]
        ELSE [accept |-> FALSE, in_group |-> in_group,
              m_number_range |-> small_group, m_number_buffer |-> in_group]

\* Lines 211-213: the retained pair shifted left by `zeros`, before the
\* fresh bits are drawn.
refill_shift(G, zeros) ==
    [G EXCEPT !.m_number_range = Shl(G.m_number_range, zeros, NumBits),
              !.m_number_buffer = Shl(G.m_number_buffer, zeros, NumBits)]

\* One iteration of the for (;;) loop with width n: the top-up (which
\* calls bits(zeros) and lets its exception through, the pair already
\* shifted) and the partition.
uniform_step(G, n, zeros, F) ==
    LET b == bits(refill_shift(G, zeros), zeros, F)
    IN  IF b.thrown # "none" THEN
            [G |-> b.G, thrown |-> b.thrown, accept |-> FALSE, in_group |-> 0,
             fed |-> b.fed, drawn |-> 0]
        ELSE
            LET value == BitOr(b.G.m_number_buffer, b.result)
                p == partition(b.G.m_number_range, value, n)
            IN  [G |-> [b.G EXCEPT !.m_number_range = p.m_number_range,
                                   !.m_number_buffer = p.m_number_buffer],
                 thrown |-> "none", accept |-> p.accept, in_group |-> p.in_group,
                 fed |-> b.fed, drawn |-> zeros]

\* A return that forgets the lower end of the range.
accepted_value_nomin(min, in_group) == in_group % NumMod

\* Line 223: return min + in_group, in uint64_t.
accepted_value(min, in_group) == (min + in_group) % NumMod

\* An entry without the shortcut for the full range, its width unwrapped.
uniform_uint64_entry_loop(min, max) ==
    IF min > max THEN [how |-> "throw", n |-> 0]
    ELSE [how |-> "loop", n |-> max - min + 1]

\* Lines 201-207: how uniform_uint64(min, max) starts: it throws, returns
\* bits(64) for the full range, or enters the loop with n = max - min + 1.
uniform_uint64_entry(min, max) ==
    IF min > max THEN [how |-> "throw", n |-> 0]
    ELSE IF min = 0 /\ max = NumMod - 1 THEN [how |-> "bits", n |-> 0]
    ELSE [how |-> "loop", n |-> (max - min + 1) % NumMod]

\* static_cast between signed and unsigned of `width` bits.
ToUnsigned(x, width) == x % 2 ^ width
ToSigned(u, width) ==
    IF (u % 2 ^ width) >= 2 ^ (width - 1) THEN (u % 2 ^ width) - 2 ^ width
    ELSE u % 2 ^ width


\* What the entry point `op`, called with (min, max), returns when the
\* uniform_uint64 call it makes returns u.
\*   uniform_uint64: u itself
\*   uniform_uint:   static_cast<unsigned>(u)
\*   uniform_int64:  static_cast<int64_t>(u + umin)
\*   uniform_int:    static_cast<int>(uniform_int64(min, max))
returned(op, min, u) ==
    CASE op = "uniform_uint64" -> u
      [] op = "uniform_uint" -> ToUnsigned(u, WordBits)
      [] op = "uniform_int64" ->
            ToSigned((u + ToUnsigned(min, NumBits)) % NumMod, NumBits)
      [] op = "uniform_int" ->
            ToSigned(ToUnsigned(
                ToSigned((u + ToUnsigned(min, NumBits)) % NumMod, NumBits),
                WordBits), WordBits)

\* The arguments the entry point `op` passes to uniform_uint64.
inner_min(op, min, max) ==
    IF op \in {"uniform_int64", "uniform_int"} THEN 0 ELSE min
\* An upper end that is cast to unsigned but not biased by umin.
inner_max_nobias(op, min, max) ==
    IF op \in {"uniform_int64", "uniform_int"}
    THEN ToUnsigned(max, NumBits)
    ELSE max

inner_max(op, min, max) ==
    IF op \in {"uniform_int64", "uniform_int"}
    THEN (ToUnsigned(max, NumBits) - ToUnsigned(min, NumBits)) % NumMod
    ELSE max

\* The arguments the four entry points are called with: for the 64-bit
\* entry points every width from either end of the type, the full range
\* and a pair with min > max; for the narrow ones the ends and the middle
\* of the type.
MinInt64 == -(NumMod \div 2)
MaxInt64 == NumMod \div 2 - 1
ArgsOf(op) ==
    CASE op = "uniform_uint64" ->
            {<<0, m>> : m \in UInt64}
                \cup {<<m, NumMod - 1>> : m \in {1, NumMod \div 2 - 1, NumMod - 1}}
                \cup {<<1, 0>>}
      [] op = "uniform_int64" ->
            {<<MinInt64, m>> : m \in {MinInt64, -1, 0, MaxInt64}}
                \cup {<<m, MaxInt64>> : m \in {-1, 0, MaxInt64}}
                \cup {<<0, -1>>}
      [] op = "uniform_uint" ->
            {<<a, b>> : a \in {0, 1, WordMod - 1}, b \in {0, 1, WordMod - 1}}
      [] op = "uniform_int" ->
            {<<a, b>> : a \in {-(WordMod \div 2), 0, WordMod \div 2 - 1},
                        b \in {-(WordMod \div 2), 0, WordMod \div 2 - 1}}

DrawOps == {"uniform_uint64", "uniform_uint", "uniform_int64", "uniform_int"}

\* ------------------------------------------------- Random::shuffle
\* A swap that writes one of the two elements only.
swap_lossy(v, i, j) == [v EXCEPT ![i + 1] = v[j + 1]]

\* std::swap(*(begin + i), *(begin + j)) on a 0-based array held as a
\* 1-based sequence.
swap(v, i, j) == [v EXCEPT ![i + 1] = v[j + 1], ![j + 1] = v[i + 1]]

\* A draw that leaves out the index itself.
shuffle_max_short(i) == i - 1

\* The upper end of the draw of step i: uniform_uint64(0, i).
shuffle_max(i) == i

RECURSIVE shuffle_from(_, _, _)
\* The for loop of shuffle from index i on, when the draws return js in
\* order: the array it leaves.
shuffle_from(v, i, js) ==
    IF i < Len(v) /\ js # <<>>
    THEN shuffle_from(swap(v, i, Head(js)), i + 1, Tail(js))
    ELSE v

\* ------------------------------------------------------------ actions
Labels == {<<102, 111, 111>>, <<102, 0>>, <<97, 98, 99, 100, 101>>}
TestIds == {123}

Install(G) ==
    /\ m_nonce' = G.m_nonce
    /\ m_counter' = G.m_counter
    /\ m_word_buffer' = G.m_word_buffer
    /\ m_word_buffer_next' = G.m_word_buffer_next
    /\ m_bits_buffer' = G.m_bits_buffer
    /\ m_num_bits' = G.m_num_bits
    /\ m_number_buffer' = G.m_number_buffer
    /\ m_number_range' = G.m_number_range

ConstructFrom(names, ids) ==
    /\ pc = "new"
    /\ \E problem_name \in names, test_id \in ids :
          /\ LET c == Random_ctor(problem_name, test_id)
             IN  IF c.ok
                 THEN /\ Install(NewRandom(c.nonce))
                      /\ pc' = "idle"
                      /\ ret' = NoRet
                      /\ twin' = [twin EXCEPT !.G = NewRandom(c.nonce), !.ret = NoRet]
                 ELSE /\ UNCHANGED genvars
                      /\ pc' = "dead"
                      /\ ret' = Thrown("invalid_argument")
                      /\ twin' = [twin EXCEPT !.ret = Thrown("invalid_argument")]
          /\ call' = [NoCall EXCEPT !.op = "Random", !.v = problem_name, !.n = test_id]
    /\ UNCHANGED <<handed, passed, calls, cc, rd>>

\* The construction of the generator the calls are made on.
Construct == ConstructFrom(Labels, TestIds)

\* The constructions of every label of up to MaxNameLen + 1 bytes, over
\* bytes that are zero, small, a letter and the largest, with test ids at
\* both ends of the 31 bits that fit and in between.
CtorBytes == {0, 1, 102, 255}
AllLabels == UNION {[1 .. len -> CtorBytes] : len \in 0 .. MaxNameLen + 1}
AllTestIds == {0, 123, 2147483647}
ConstructAny == ConstructFrom(AllLabels, AllTestIds)

\* The keystream F handed to the first generator answers the second one
\* too when the second asks for the same blocks: chacha is a function of
\* (key, nonce, counter).  A second generator that asks for other blocks
\* has left the first.
Covers(F, G2, k2) ==
    /\ G2.m_nonce = m_nonce
    /\ G2.m_counter = F.base
    /\ k2 <= Len(F.fresh)

Diverged == [twin EXCEPT !.ret = Thrown("diverged")]

\* A call of bits(n) from outside.
CallBitsWithin(limit) ==
    /\ pc = "idle"
    /\ calls < limit
    /\ \E n \in 0 .. NumBits + 1 :
          /\ Len(passed) + Refills(Self, n) <= MaxBlocks
          /\ \E F \in Streams(Self, Refills(Self, n)) :
              LET r == bits(Self, n, F)
              IN  /\ Install(r.G)
                  /\ call' = [NoCall EXCEPT !.op = "bits", !.n = n]
                  /\ ret' = IF r.thrown = "none" THEN Value(r.result) ELSE Thrown(r.thrown)
                  /\ handed' = IF r.thrown = "none" THEN handed + n ELSE handed
                  /\ passed' = passed \o r.fed
                  /\ twin' = IF Covers(F, twin.G, Refills(twin.G, n))
                             THEN LET r2 == bits(twin.G, n, F)
                                  IN  [twin EXCEPT
                                          !.G = r2.G, !.v = <<>>,
                                          !.ret = IF r2.thrown = "none"
                                                  THEN Value(r2.result)
                                                  ELSE Thrown(r2.thrown)]
                             ELSE Diverged
    /\ calls' = calls + 1
    /\ UNCHANGED <<pc, cc, rd>>

\* A call of bits among the calls of the sampler and of shuffle.
CallBits == CallBitsWithin(MaxCalls)

\* A call of bits in a history of calls of bits alone, which may be longer.
MaxBitsCalls == 5
CallBitsAlone == CallBitsWithin(MaxBitsCalls)

\* A call of uniform_uint64, uniform_uint, uniform_int64 or uniform_int.
\* The signed entry points compare min and max as signed numbers before
\* they bias them; the call then throws, returns bits(64) or enters the loop.
CallDraw ==
    /\ pc = "idle"
    /\ calls < MaxCalls
    /\ \E op \in DrawOps :
       \E args \in ArgsOf(op) :
          LET min == args[1]
              max == args[2]
              lo == inner_min(op, min, max)
              hi == inner_max(op, min, max)
              e == uniform_uint64_entry(lo, hi)
              frame == [NoCall EXCEPT !.op = op, !.min = min, !.max = max,
                                      !.lo = lo, !.n = e.n]
          IN  /\ call' = frame
              /\ IF min > max \/ e.how = "throw" THEN
                    /\ ret' = Thrown("invalid_argument")
                    /\ twin' = [twin EXCEPT !.v = <<>>, !.ret = Thrown("invalid_argument")]
                    /\ UNCHANGED <<pc, genvars, handed, passed>>
                 ELSE IF e.how = "bits" THEN
                    /\ Len(passed) + Refills(Self, NumBits) <= MaxBlocks
                    /\ \E F \in Streams(Self, Refills(Self, NumBits)) :
                        LET r == bits(Self, NumBits, F)
                        IN  /\ Install(r.G)
                            /\ ret' = IF r.thrown = "none"
                                      THEN Value(returned(op, min, r.result))
                                      ELSE Thrown(r.thrown)
                            /\ handed' = IF r.thrown = "none"
                                         THEN handed + NumBits ELSE handed
                            /\ passed' = passed \o r.fed
                            /\ pc' = "idle"
                            /\ twin' = IF Covers(F, twin.G, Refills(twin.G, NumBits))
                                       THEN LET r2 == bits(twin.G, NumBits, F)
                                            IN  [twin EXCEPT
                                                    !.G = r2.G, !.v = <<>>,
                                                    !.ret = IF r2.thrown = "none"
                                                            THEN Value(returned(op, min, r2.result))
                                                            ELSE Thrown(r2.thrown)]
                                       ELSE Diverged
                 ELSE
                    /\ pc' = "loop"
                    /\ ret' = NoRet
                    /\ twin' = [twin EXCEPT !.v = <<>>, !.ret = NoRet]
                    /\ UNCHANGED <<genvars, handed, passed>>
    /\ calls' = calls + 1
    /\ UNCHANGED <<cc, rd>>

\* The arrays handed to shuffle: of every length up to MaxLen, with
\* distinct elements and with repeated ones.
MaxLen == 3
ShuffleInputs ==
    {[k \in 1 .. len |-> k] : len \in 0 .. MaxLen}
        \cup {[k \in 1 .. len |-> (k % 2) + 1] : len \in 2 .. MaxLen}

\* A call of shuffle(begin, end): nothing to do for fewer than two
\* elements, else the loop starts at i = 1 with the draw uniform_uint64(0, 1).
CallShuffle ==
    /\ pc = "idle"
    /\ calls < MaxCalls
    /\ \E v \in ShuffleInputs :
          LET e == uniform_uint64_entry(0, shuffle_max(1))
              frame == [NoCall EXCEPT !.op = "shuffle", !.v = v, !.orig = v,
                                      !.i = 1, !.n = e.n]
          IN  IF 1 < Len(v)
              THEN /\ call' = frame
                   /\ pc' = "loop"
                   /\ ret' = NoRet
                   /\ twin' = [twin EXCEPT !.v = v, !.ret = NoRet]
              ELSE /\ call' = [frame EXCEPT !.n = 0]
                   /\ pc' = "idle"
                   /\ ret' = Value(0)
                   /\ twin' = [twin EXCEPT !.v = v, !.ret = Value(0)]
    /\ calls' = calls + 1
    /\ UNCHANGED <<genvars, handed, passed, cc, rd>>

\* The same iteration in the second generator, which computes its own
\* zeros and reads the same keystream.
twin_step(zeros2, F) ==
    LET s2 == uniform_step(twin.G, call.n, zeros2, F)
        u2 == accepted_value(call.lo, s2.in_group)
    IN  IF s2.thrown # "none" THEN
            [twin EXCEPT !.G = s2.G, !.ret = Thrown(s2.thrown)]
        ELSE IF ~s2.accept THEN
            [twin EXCEPT !.G = s2.G]
        ELSE IF call.op = "shuffle" THEN
            [twin EXCEPT !.G = s2.G,
                         !.v = swap(twin.v, call.i, u2),
                         !.ret = IF call.i + 1 < Len(call.v) THEN twin.ret ELSE Value(0)]
        ELSE
            [twin EXCEPT !.G = s2.G,
                         !.ret = Value(returned(call.op, call.min, u2))]

\* One iteration of the for (;;) loop of uniform_uint64.  An exception of
\* bits ends the call; an accepted draw returns min + in_group to the entry
\* point (shuffle swaps and goes on to its next index); a rejected draw
\* stays in the loop.
Iterate ==
    /\ pc = "loop"
    /\ \E zeros \in clzll(m_number_range) :
       /\ Len(passed) + Refills(Self, zeros) <= MaxBlocks
       /\ \E F \in Streams(Self, Refills(Self, zeros)) :
          LET s == uniform_step(Self, call.n, zeros, F)
              u == accepted_value(call.lo, s.in_group)
          IN  /\ Install(s.G)
              /\ handed' = handed + s.drawn
              /\ passed' = passed \o s.fed
              /\ IF s.thrown # "none" THEN
                    /\ pc' = "idle"
                    /\ ret' = Thrown(s.thrown)
                    /\ call' = call
                 ELSE IF ~s.accept THEN
                    /\ UNCHANGED <<pc, ret, call>>
                 ELSE IF call.op = "shuffle" THEN
                    LET v1 == swap(call.v, call.i, u)
                        i1 == call.i + 1
                    IN  IF i1 < Len(call.v)
                        THEN /\ call' = [call EXCEPT
                                   !.v = v1, !.i = i1, !.js = Append(@, u),
                                   !.n = uniform_uint64_entry(0, shuffle_max(i1)).n]
                             /\ UNCHANGED <<pc, ret>>
                        ELSE /\ call' = [call EXCEPT
                                   !.v = v1, !.i = i1, !.js = Append(@, u)]
                             /\ pc' = "idle"
                             /\ ret' = Value(0)
                 ELSE
                    /\ pc' = "idle"
                    /\ ret' = Value(returned(call.op, call.min, u))
                    /\ call' = call
              /\ \E zeros2 \in clzll(twin.G.m_number_range) :
                    twin' = IF Covers(F, twin.G, Refills(twin.G, zeros2))
                            THEN twin_step(zeros2, F)
                            ELSE Diverged
    /\ UNCHANGED <<calls, cc, rd>>

\* =================================================================
\* Reader (src/src/reader.h)
\* =================================================================
\* Characters are one-character strings; NUL is char(0), the value of
\* m_next_char before the first character and at the end of the file.
NUL == ""

\* std::isspace and std::isdigit in the "C" locale.
isspace(c) == c \in {" ", "\t", "\n", "\f", "\r"}

isdigit(c) == c \in {"0", "1", "2", "3", "4", "5", "6", "7", "8", "9"}

DigitValue(c) ==
    CHOOSE d \in 0 .. 9 :
        <<"0", "1", "2", "3", "4", "5", "6", "7", "8", "9">>[d + 1] = c

\* The files read: every text over Alphabet of at most MaxInput characters.
Alphabet == {"e", " ", "\t", "\n", "-", "0", "1", "."}

MaxInput == 3

Files == UNION {[1 .. len -> Alphabet] : len \in 0 .. MaxInput}

Strictness == {"permissive", "strict"}

NoError == [line |-> 0, column |-> 0, error |-> ""]

\* Lines 110-116: the fields of a Reader and their initializers.  m_input is
\* the file's text with m_got, the number of characters already extracted
\* from the stream.  state is "running" until error() exits the process
\* ("exited") or advance_char throws ("thrown").
NewReader(file, strictness) ==
    [m_input |-> file, m_got |-> 0, m_strictness |-> strictness,
     m_eof |-> FALSE, m_next_char |-> NUL, m_line |-> 1, m_column |-> 0,
     state |-> "running", err |-> NoError]

\* Lines 132-135: prints ERROR(m_line:m_column) and exits the process.
error(R, msg) ==
    [R EXCEPT !.state = "exited",
              !.err = [line |-> R.m_line, column |-> R.m_column, error |-> msg]]

\* An advance_char that does not start a new line after '\n'.
advance_char_flat(R) ==
    IF R.state # "running" THEN R
    ELSE IF R.m_eof THEN [R EXCEPT !.state = "thrown"]
    ELSE LET moved == [R EXCEPT !.m_column = @ + 1]
         IN  IF moved.m_got = Len(moved.m_input)
             THEN [moved EXCEPT !.m_eof = TRUE, !.m_next_char = NUL]
             ELSE [moved EXCEPT !.m_got = @ + 1,
                                !.m_next_char = moved.m_input[moved.m_got + 1]]

\* Lines 334-354: consume m_next_char and look at the next character of
\* the stream.  The stream is a file that opened and never goes bad.
advance_char(R) ==
    IF R.state # "running" THEN R
    ELSE IF R.m_eof THEN [R EXCEPT !.state = "thrown"]
    ELSE LET moved == IF R.m_next_char = "\n"
                      THEN [R EXCEPT !.m_line = @ + 1, !.m_column = 1]
                      ELSE [R EXCEPT !.m_column = @ + 1]
         IN  IF moved.m_got = Len(moved.m_input)
             THEN [moved EXCEPT !.m_eof = TRUE, !.m_next_char = NUL]
             ELSE [moved EXCEPT !.m_got = @ + 1,
                                !.m_next_char = moved.m_input[moved.m_got + 1]]

\* Lines 118-126.
Reader_ctor(file, strictness) == advance_char(NewReader(file, strictness))

\* Lines 137-142.
peek(R) ==
    IF R.m_eof THEN [R |-> error(R, "Unexpected EOF"), res |-> NUL]
    ELSE [R |-> R, res |-> R.m_next_char]

\* Lines 144-148.
read_char(R) ==
    LET p == peek(R)
    IN  [R |-> advance_char(p.R), res |-> p.res]

\* Lines 358-361: the loop of skip_whitespace_in_line.
RECURSIVE skip_loop(_)
skip_loop(R) ==
    IF isspace(R.m_next_char) /\ R.m_next_char # "\n"
    THEN skip_loop(advance_char(R))
    ELSE R

\* Lines 356-365.
skip_whitespace_in_line(R, required) ==
    LET skipped == isspace(R.m_next_char) /\ R.m_next_char # "\n"
        S == skip_loop(R)
    IN  IF required /\ ~skipped THEN error(S, "Expected whitespace") ELSE S

\* A read_space that is permissive in both modes.
read_space_lax(R) == skip_whitespace_in_line(R, TRUE)

\* Lines 150-159.
read_space(R) ==
    IF R.m_strictness = "strict"
    THEN IF R.m_next_char # " " THEN error(R, "Expected space")
         ELSE advance_char(R)
    ELSE skip_whitespace_in_line(R, TRUE)

\* Lines 161-170.
read_eoln(R) ==
    LET S == IF R.m_strictness = "permissive"
             THEN skip_whitespace_in_line(R, FALSE) ELSE R
    IN  IF R.m_strictness = "permissive" /\ S.m_eof THEN S
        ELSE IF S.m_next_char # "\n" THEN error(S, "Expected EOLN")
        ELSE advance_char(S)

\* Lines 174-176: the loop of read_eof.
RECURSIVE space_loop(_)
space_loop(R) ==
    IF isspace(R.m_next_char) THEN space_loop(advance_char(R)) ELSE R

\* Lines 172-181.
read_eof(R) ==
    LET S == IF R.m_strictness = "permissive" THEN space_loop(R) ELSE R
    IN  IF ~S.m_eof THEN error(S, "Expected EOF") ELSE S

\* Lines 185-188: the loop of read_line.
RECURSIVE line_loop(_, _)
line_loop(R, res) ==
    IF ~R.m_eof /\ R.m_next_char # "\n"
    THEN line_loop(advance_char(R), Append(res, R.m_next_char))
    ELSE [R |-> R, res |-> res]

\* Lines 183-198.
read_line(R) ==
    LET l == line_loop(R, <<>>)
    IN  IF l.R.m_eof
        THEN IF R.m_strictness = "strict"
             THEN [R |-> error(l.R, "Unexpected EOF"), res |-> l.res]
             ELSE l
        ELSE [R |-> advance_char(l.R), res |-> l.res]

\* Lines 204-207: the loop of read_string.
RECURSIVE string_loop(_, _)
string_loop(R, res) ==
    IF ~R.m_eof /\ ~isspace(R.m_next_char)
    THEN string_loop(advance_char(R), Append(res, R.m_next_char))
    ELSE [R |-> R, res |-> res]

\* Lines 199-212.
read_string(R) ==
    LET S == IF R.m_strictness = "permissive"
             THEN skip_whitespace_in_line(R, FALSE) ELSE R
        l == string_loop(S, <<>>)
    IN  IF l.res = <<>> THEN [R |-> error(l.R, "Expected string"), res |-> <<>>]
        ELSE l

\* Lines 220-223 and 258-261: the optional sign.
read_sign(R) ==
    IF R.m_next_char = "-" THEN [R |-> advance_char(R), s |-> <<"-">>]
    ELSE [R |-> R, s |-> <<>>]

\* Lines 224-227, 262-265 and 270-274: a run of digits appended to s.
RECURSIVE digit_loop(_, _)
digit_loop(R, s) ==
    IF isdigit(R.m_next_char)
    THEN digit_loop(advance_char(R), Append(s, R.m_next_char))
    ELSE [R |-> R, s |-> s]

\* The integer types read: int and unsigned int, their largest value given
\* as its quotient and remainder by 10.
IntT == [signed |-> TRUE, max_div10 |-> 214748364, max_mod10 |-> 7]

UnsignedT == [signed |-> FALSE, max_div10 |-> 429496729, max_mod10 |-> 5]

\* The end of the run of digits of s that starts at index i.
RECURSIVE digits_end(_, _)
digits_end(s, i) ==
    IF i <= Len(s) /\ isdigit(s[i]) THEN digits_end(s, i + 1) ELSE i - 1

\* The magnitude of the digits s[i .. last], or -1 when type T cannot
\* hold it.
RECURSIVE magnitude(_, _, _, _, _, _)
magnitude(s, i, last, acc, T, neg) ==
    IF i > last THEN acc
    ELSE LET d == DigitValue(s[i])
             most == T.max_mod10 + (IF neg THEN 1 ELSE 0)
         IN  IF acc > T.max_div10 \/ (acc = T.max_div10 /\ d > most)
             THEN -1
             ELSE magnitude(s, i + 1, last, acc * 10 + d, T, neg)

\* std::from_chars(begin, end, res) for an integer type, base 10 (line 240):
\* an optional '-' (signed types only) and at least one digit.  ptr counts
\* the characters matched.  res is left as it was on failure; the caller
\* does not read it then.
from_chars(s, T) ==
    LET neg == T.signed /\ Len(s) >= 1 /\ s[1] = "-"
        first == IF neg THEN 2 ELSE 1
        last == digits_end(s, first)
        m == magnitude(s, first, last, 0, T, neg)
    IN  IF last < first THEN [ec |-> "invalid_argument", ptr |-> 0, res |-> 0]
        ELSE IF m = -1 THEN [ec |-> "result_out_of_range", ptr |-> last, res |-> 0]
        ELSE [ec |-> "ok", ptr |-> last, res |-> IF neg THEN 0 - m ELSE m]

\* A read_int without the strict checks of lines 228-236.
read_int_lax(R, T, min, max) ==
    LET S == IF R.m_strictness = "permissive"
             THEN skip_whitespace_in_line(R, FALSE) ELSE R
        sign == read_sign(S)
        d == digit_loop(sign.R, sign.s)
        s == d.s
        code == from_chars(s, T)
    IN  IF \/ code.ec # "ok"
           \/ code.ptr # Len(s)
           \/ code.res < min
           \/ code.res > max
        THEN [R |-> error(d.R, "Expected integer in range"), res |-> 0]
        ELSE [R |-> d.R, res |-> code.res]

\* Lines 214-247.
read_int(R, T, min, max) ==
    LET S == IF R.m_strictness = "permissive"
             THEN skip_whitespace_in_line(R, FALSE) ELSE R
        sign == read_sign(S)
        d == digit_loop(sign.R, sign.s)
        s == d.s
        code == from_chars(s, T)
    IN  IF /\ R.m_strictness = "strict"
           /\ \/ Len(s) >= 2 /\ s[1] = "0"
              \/ Len(s) >= 3 /\ s[1] = "-" /\ s[2] = "0"
        THEN [R |-> error(d.R, "Leading 0"), res |-> 0]
        ELSE IF R.m_strictness = "strict" /\ s = <<"-", "0">>
        THEN [R |-> error(d.R, "Negative 0"), res |-> 0]
        ELSE IF \/ code.ec # "ok"
                \/ code.ptr # Len(s)
                \/ code.res < min
                \/ code.res > max
        THEN [R |-> error(d.R, "Expected integer in range"), res |-> 0]
        ELSE [R |-> d.R, res |-> code.res]

\* The default of max_fractional_digits (line 81) stands above every count.
NoDigitLimit == 1000000

\* Lines 266-279 up to the check: the optional fraction.
read_fraction(R, s) ==
    IF R.m_next_char = "."
    THEN LET f == digit_loop(advance_char(R), Append(s, "."))
         IN  [R |-> f.R, s |-> f.s, fractional_digits |-> Len(f.s) - Len(s) - 1]
    ELSE [R |-> R, s |-> s, fractional_digits |-> 0]

\* std::from_chars(begin, end, res, std::chars_format::fixed) (line 289): an
\* optional '-', digits with an optional '.', at least one digit, no
\* exponent.  The value is the fraction num / den, den a power of 10.
from_chars_fixed(s) ==
    LET neg == Len(s) >= 1 /\ s[1] = "-"
        first == IF neg THEN 2 ELSE 1
        int_last == digits_end(s, first)
        dot == int_last + 1 <= Len(s) /\ s[int_last + 1] = "."
        frac_last == IF dot THEN digits_end(s, int_last + 2) ELSE int_last
        count == (int_last - first + 1) + (IF dot THEN frac_last - int_last - 1 ELSE 0)
        whole == magnitude(s, first, int_last, 0, IntT, FALSE)
        num == IF dot THEN magnitude(s, int_last + 2, frac_last, whole, IntT, FALSE)
               ELSE whole
        den == 10 ^ (IF dot THEN frac_last - int_last - 1 ELSE 0)
    IN  IF count = 0 THEN [ec |-> "invalid_argument", ptr |-> 0, num |-> 0, den |-> 1, neg |-> FALSE]
        ELSE [ec |-> "ok", ptr |-> frac_last, num |-> IF neg THEN 0 - num ELSE num,
              den |-> den, neg |-> neg]

\* Lines 249-299; min and max are whole numbers.
read_real(R, min, max, max_fractional_digits) ==
    LET S == IF R.m_strictness = "permissive"
             THEN skip_whitespace_in_line(R, FALSE) ELSE R
        sign == read_sign(S)
        d == digit_loop(sign.R, sign.s)
        f == read_fraction(d.R, d.s)
        s == f.s
        code == from_chars_fixed(s)
        none == [num |-> 0, den |-> 1]
    IN  IF f.fractional_digits > max_fractional_digits
        THEN [R |-> error(f.R, "More than max_fractional_digits"), res |-> none]
        ELSE IF /\ R.m_strictness = "strict"
                /\ \/ Len(s) >= 2 /\ s[1] = "0" /\ s[2] # "."
                   \/ Len(s) >= 3 /\ s[1] = "-" /\ s[2] = "0" /\ s[3] # "."
        THEN [R |-> error(f.R, "Leading 0"), res |-> none]
        ELSE IF \/ code.ec # "ok"
                \/ code.ptr # Len(s)
                \/ code.num < min * code.den
                \/ code.num > max * code.den
        THEN [R |-> error(f.R, "Expected real in range"), res |-> none]
        ELSE IF /\ R.m_strictness = "strict"
                /\ code.num = 0
                /\ Len(s) >= 1
                /\ s[1] = "-"
        THEN [R |-> error(f.R, "Negative 0"), res |-> none]
        ELSE [R |-> f.R, res |-> [num |-> code.num, den |-> code.den]]

\* Lines 303-306: the loop of read_strings, from element i.
RECURSIVE strings_loop(_, _, _, _)
strings_loop(R, i, n, res) ==
    IF i = n THEN [R |-> R, res |-> res]
    ELSE LET S == IF i # 0 THEN read_space(R) ELSE R
             r == read_string(S)
         IN  IF S.state # "running" THEN [R |-> S, res |-> res]
             ELSE IF r.R.state # "running" THEN [R |-> r.R, res |-> res]
             ELSE strings_loop(r.R, i + 1, n, Append(res, r.res))

\* Lines 301-308.
read_strings(R, n) == strings_loop(R, 0, n, <<>>)

\* Lines 313-316: the loop of read_ints, from element i.
RECURSIVE ints_loop(_, _, _, _, _, _, _)
ints_loop(R, i, n, T, min, max, res) ==
    IF i = n THEN [R |-> R, res |-> res]
    ELSE LET S == IF i # 0 THEN read_space(R) ELSE R
             r == read_int(S, T, min, max)
         IN  IF S.state # "running" THEN [R |-> S, res |-> res]
             ELSE IF r.R.state # "running" THEN [R |-> r.R, res |-> res]
             ELSE ints_loop(r.R, i + 1, n, T, min, max, Append(res, r.res))

\* Lines 310-318.
read_ints(R, n, T, min, max) == ints_loop(R, 0, n, T, min, max, <<>>)

\* Lines 327-330: the loop of read_reals, from element i.
RECURSIVE reals_loop(_, _, _, _, _, _, _)
reals_loop(R, i, n, min, max, max_fractional_digits, res) ==
    IF i = n THEN [R |-> R, res |-> res]
    ELSE LET S == IF i # 0 THEN read_space(R) ELSE R
             r == read_real(S, min, max, max_fractional_digits)
         IN  IF S.state # "running" THEN [R |-> S, res |-> res]
             ELSE IF r.R.state # "running" THEN [R |-> r.R, res |-> res]
             ELSE reals_loop(r.R, i + 1, n, min, max, max_fractional_digits,
                             Append(res, r.res))

\* Lines 320-332.
read_reals(R, n, min, max, max_fractional_digits) ==
    reals_loop(R, 0, n, min, max, max_fractional_digits, <<>>)

\* No Reader yet, no call yet.
NoReaderCall ==
    [op |-> "none", T |-> "none", min |-> 0, max |-> 0, n |-> 0,
     max_fractional_digits |-> 0]

NoReader ==
    [R |-> [NewReader(<<>>, "strict") EXCEPT !.state = "none"],
     before |-> [NewReader(<<>>, "strict") EXCEPT !.state = "none"],
     call |-> NoReaderCall,
     res |-> <<>>]

\* ------------------------------------------------- the initial state
Init ==
    /\ pc = "new"
    /\ m_nonce = 0
    /\ m_counter = 0
    /\ m_word_buffer = ZeroBlock
    /\ m_word_buffer_next = WordsPerBlock
    /\ m_bits_buffer = 0
    /\ m_num_bits = 0
    /\ m_number_buffer = 0
    /\ m_number_range = 1
    /\ call = NoCall
    /\ ret = NoRet
    /\ handed = 0
    /\ passed = <<>>
    /\ calls = 0
    /\ twin = [G |-> NewRandom(0), ret |-> NoRet, v |-> <<>>]
    /\ cc = NoChaCha
    /\ rd = NoReader

Next ==
    \/ Construct
    \/ CallBits
    \/ CallDraw
    \/ CallShuffle
    \/ Iterate

Spec == Init /\ [][Next]_vars

\* The generator driven through bits(n) alone.
NextBits ==
    \/ Construct
    \/ CallBitsAlone

SpecBits == Init /\ [][NextBits]_vars

NextCtor == ConstructAny

SpecCtor == Init /\ [][NextCtor]_vars

\* ------------------------------------------------ chacha<20>, stepwise
randomvars == <<pc, genvars, call, ret, handed, passed, calls, twin>>

\* The calls of chacha<20> followed: the one of test_chacha, and those a
\* Random("foo", 123) makes for its first blocks.
MaxCounter == 4
ChaChaCalls ==
    {[key |-> test_key, nonce |-> test_nonce, counter |-> test_counter]}
        \cup {[key |-> key,
               nonce |-> ToUInt64(Random_ctor(<<102, 111, 111>>, 123).nonce),
               counter |-> ToUInt64(c)] : c \in 0 .. MaxCounter}

\* Lines 103-114: the input block is built and copied to x.
ChaChaCall ==
    /\ cc.stage = "none"
    /\ \E a \in ChaChaCalls :
          LET input == chacha_input(a.key, a.nonce, a.counter)
          IN  cc' = [stage |-> IF 0 < rounds \div 2 THEN "column" ELSE "final",
                     key |-> a.key, nonce |-> a.nonce, counter |-> a.counter,
                     input |-> input, x |-> input, double_round |-> 0]
    /\ UNCHANGED <<randomvars, rd>>

\* Lines 117-120: the first half of a double round.
ColumnRound ==
    /\ cc.stage = "column"
    /\ cc' = [cc EXCEPT !.x = column_round(cc.x), !.stage = "diagonal"]
    /\ UNCHANGED <<randomvars, rd>>

\* Lines 122-125 and the loop header: the second half of a double round.
DiagonalRound ==
    /\ cc.stage = "diagonal"
    /\ cc' = [cc EXCEPT !.x = diagonal_round(cc.x),
                        !.double_round = cc.double_round + 1,
                        !.stage = IF cc.double_round + 1 < rounds \div 2
                                  THEN "column" ELSE "final"]
    /\ UNCHANGED <<randomvars, rd>>

\* Lines 128-132: the input is added and x returned.
ChaChaReturn ==
    /\ cc.stage = "final"
    /\ cc' = [cc EXCEPT !.x = add_input(cc.x, cc.input), !.stage = "done"]
    /\ UNCHANGED <<randomvars, rd>>

NextChaCha ==
    \/ ChaChaCall
    \/ ColumnRound
    \/ DiagonalRound
    \/ ChaChaReturn

SpecChaCha == Init /\ [][NextChaCha]_vars

\* ------------------------------------------------------ Reader, stepwise
\* The arguments the calls are made with: the ranges of the tests
\* (read_int(-100, 100), read_int(0u, 100u), read_real(-100.0, 100.0)), a
\* range without 0, lists of 2 .. MaxList elements.
MaxList == 2

IntCalls ==
    {[T |-> "int", min |-> -100, max |-> 100],
     [T |-> "int", min |-> 1, max |-> 10],
     [T |-> "unsigned", min |-> 0, max |-> 100]}

TypeOf(name) == IF name = "int" THEN IntT ELSE UnsignedT

RealCalls ==
    {[min |-> -100, max |-> 100, max_fractional_digits |-> NoDigitLimit],
     [min |-> -100, max |-> 100, max_fractional_digits |-> 1]}

\* One call on the Reader: the object it left, the object it found, its
\* arguments and its result.
ReaderCall(frame, out) ==
    /\ rd.R.state = "running"
    /\ rd' = [R |-> out.R, before |-> rd.R, call |-> frame, res |-> out.res]
    /\ UNCHANGED <<randomvars, cc>>

ReaderConstruct ==
    /\ rd.R.state = "none"
    /\ \E file \in Files, strictness \in Strictness :
          rd' = [R |-> Reader_ctor(file, strictness),
                 before |-> NewReader(file, strictness),
                 call |-> [NoReaderCall EXCEPT !.op = "Reader"],
                 res |-> <<>>]
    /\ UNCHANGED <<randomvars, cc>>

Peek == ReaderCall([NoReaderCall EXCEPT !.op = "peek"], peek(rd.R))

ReadChar == ReaderCall([NoReaderCall EXCEPT !.op = "read_char"], read_char(rd.R))

ReadSpace ==
    ReaderCall([NoReaderCall EXCEPT !.op = "read_space"],
               [R |-> read_space(rd.R), res |-> <<>>])

ReadEoln ==
    ReaderCall([NoReaderCall EXCEPT !.op = "read_eoln"],
               [R |-> read_eoln(rd.R), res |-> <<>>])

ReadEof ==
    ReaderCall([NoReaderCall EXCEPT !.op = "read_eof"],
               [R |-> read_eof(rd.R), res |-> <<>>])

ReadLine == ReaderCall([NoReaderCall EXCEPT !.op = "read_line"], read_line(rd.R))

ReadString ==
    ReaderCall([NoReaderCall EXCEPT !.op = "read_string"], read_string(rd.R))

ReadInt ==
    \E a \in IntCalls :
        ReaderCall([NoReaderCall EXCEPT !.op = "read_int", !.T = a.T,
                                        !.min = a.min, !.max = a.max],
                   read_int(rd.R, TypeOf(a.T), a.min, a.max))

ReadReal ==
    \E a \in RealCalls :
        ReaderCall([NoReaderCall EXCEPT !.op = "read_real", !.T = "double",
                                        !.min = a.min, !.max = a.max,
                                        !.max_fractional_digits = a.max_fractional_digits],
                   read_real(rd.R, a.min, a.max, a.max_fractional_digits))

ReadStrings ==
    \E n \in 2 .. MaxList :
        ReaderCall([NoReaderCall EXCEPT !.op = "read_strings", !.n = n],
                   read_strings(rd.R, n))

ReadInts ==
    \E n \in 2 .. MaxList, a \in IntCalls :
        ReaderCall([NoReaderCall EXCEPT !.op = "read_ints", !.n = n, !.T = a.T,
                                        !.min = a.min, !.max = a.max],
                   read_ints(rd.R, n, TypeOf(a.T), a.min, a.max))

ReadReals ==
    \E n \in 2 .. MaxList, a \in RealCalls :
        ReaderCall([NoReaderCall EXCEPT !.op = "read_reals", !.n = n, !.T = "double",
                                        !.min = a.min, !.max = a.max,
                                        !.max_fractional_digits = a.max_fractional_digits],
                   read_reals(rd.R, n, a.min, a.max, a.max_fractional_digits))

\* Lines 128-130: the destructor calls read_eof.
ReaderDestroy ==
    /\ rd.R.state = "running"
    /\ LET out == read_eof(rd.R)
       IN  rd' = [R |-> IF out.state = "running"
                        THEN [out EXCEPT !.state = "destroyed"] ELSE out,
                  before |-> rd.R,
                  call |-> [NoReaderCall EXCEPT !.op = "~Reader"],
                  res |-> <<>>]
    /\ UNCHANGED <<randomvars, cc>>

NextReader ==
    \/ ReaderConstruct
    \/ Peek
    \/ ReadChar
    \/ ReadSpace
    \/ ReadEoln
    \/ ReadEof
    \/ ReadLine
    \/ ReadString
    \/ ReadInt
    \/ ReadReal
    \/ ReadStrings
    \/ ReadInts
    \/ ReadReals
    \/ ReaderDestroy

SpecReader == Init /\ [][NextReader]_vars

\* =================================================================
\* Properties
\* =================================================================
BitsPerBlock == WordBits * WordsPerBlock

\* No call has run into the counter overflow so far: the block function
\* has not been passed the last counter value.
NoOverflowYet == \A k \in 1 .. Len(passed) : passed[k] # CounterMod - 1

\* A ranged draw has just returned a value.
DrawReturned ==
    /\ pc = "idle"
    /\ call.op \in DrawOps
    /\ ret.kind = "value"

\* C1: a ranged draw that returns, through any of the four entry points,
\* returns a value r with min <= r <= max.
C1_DrawInRange ==
    DrawReturned => (call.min <= ret.value /\ ret.value <= call.max)

\* A signed draw over a range with a negative lower end returned a value
\* strictly inside the range, with randomness retained for the next call.
C1_Witness ==
    /\ DrawReturned
    /\ call.op = "uniform_int64"
    /\ call.min < 0
    /\ call.min < ret.value /\ ret.value < call.max
    /\ m_number_range > 1
    /\ calls = 2

\* The range a loop iteration partitions: m_number_range after the top-up.
ToppedUp(range) == Shl(range, NumBits - BitLength(range), NumBits)

\* C2: in the partition step of a loop iteration with width n and topped-up
\* range R, every pair (k, g) with k < n and g < R / n is the (output - min,
\* retained value) of exactly one value in [0, R), the accepted draws retain
\* the range R / n, and the rejected values map one-to-one onto [0, R mod n),
\* the range they retain.
C2_PartitionExact ==
    pc = "loop" =>
        LET R == ToppedUp(m_number_range)
            n == call.n
            P(v) == partition(R, v, n)
            rejected == {v \in 0 .. R - 1 : ~P(v).accept}
        IN  /\ \A k \in 0 .. n - 1 : \A g \in 0 .. (R \div n) - 1 :
                   Cardinality({v \in 0 .. R - 1 :
                       /\ P(v).accept
                       /\ P(v).in_group = k
                       /\ P(v).m_number_buffer = g}) = 1
            /\ \A v \in 0 .. R - 1 :
                   /\ P(v).accept => (P(v).m_number_range = R \div n /\ P(v).in_group < n)
                   /\ ~P(v).accept => P(v).m_number_range = R % n
            /\ {P(v).m_number_buffer : v \in rejected} = 0 .. (R % n) - 1
            /\ Cardinality(rejected) = R % n

\* A loop iteration whose partition has several full groups and a partial
\* one, so that both outcomes occur.
C2_Witness ==
    /\ pc = "loop"
    /\ call.n = 3
    /\ ToppedUp(m_number_range) \div call.n >= 2
    /\ ToppedUp(m_number_range) % call.n = 2
    /\ calls = 2

\* C3: every rejection strictly changes the state of the generator, so the
\* loop of uniform_uint64 cannot go round for ever.
C3_RejectionMakesProgress ==
    pc = "loop" =>
        \A zeros \in clzll(m_number_range) :
            \A F \in Streams(Self, Refills(Self, zeros)) :
                LET s == uniform_step(Self, call.n, zeros, F)
                IN  (s.thrown = "none" /\ ~s.accept) => s.G # Self

\* C5: as long as every call has returned, the keystream bits handed out,
\* counted from the blocks generated, the word cursor and the bits left in
\* the reservoir word, are the sum of the n of the bits(n) calls made, those
\* inside ranged draws included.
C5_BitsAccounted ==
    NoOverflowYet =>
        handed = BitsPerBlock * Len(passed)
                    - WordBits * (WordsPerBlock - m_word_buffer_next)
                    - m_num_bits

\* Several blocks have been generated and the reservoir word is partly
\* used, after a ranged draw and a second call.
C5_Witness ==
    /\ NoOverflowYet
    /\ pc = "idle"
    /\ calls = 2
    /\ Len(passed) = 3
    /\ m_num_bits = 1
    /\ m_word_buffer_next = 1
    /\ handed = 2 * BitsPerBlock + 1

RECURSIVE one_by_one(_, _, _)
\* N successive calls bits(1) on G with keystream F: the generator they
\* leave and the bits they return, in call order.
one_by_one(G, N, F) ==
    IF N = 0 THEN [G |-> G, thrown |-> "none", out |-> <<>>]
    ELSE LET r == bits(G, 1, F)
         IN  IF r.thrown # "none" THEN [G |-> r.G, thrown |-> r.thrown, out |-> <<>>]
             ELSE LET rest == one_by_one(r.G, N - 1, F)
                  IN  [G |-> rest.G, thrown |-> rest.thrown,
                       out |-> <<r.result>> \o rest.out]

RECURSIVE MsbFirst(_)
\* The bits of a sequence as a number, the first bit most significant.
MsbFirst(out) ==
    IF out = <<>> THEN 0
    ELSE out[1] * 2 ^ (Len(out) - 1) + MsbFirst(Tail(out))

RECURSIVE LsbFirst(_)
\* The bits of a sequence as a number, the first bit least significant.
LsbFirst(out) ==
    IF out = <<>> THEN 0 ELSE out[1] + 2 * LsbFirst(Tail(out))

RECURSIVE WordGroups(_, _)
\* The bits of a sequence cut where the keystream words end (the first
\* word has m bits left): the groups in order from the most significant
\* end, each group with its first bit least significant.
WordGroups(out, m) ==
    IF Len(out) <= m THEN LsbFirst(out)
    ELSE LsbFirst(SubSeq(out, 1, m)) * 2 ^ (Len(out) - m)
            + WordGroups(SubSeq(out, m + 1, Len(out)), WordBits)

\* C6 as stated: bits(N) returns the N bits that N calls bits(1) return,
\* concatenated bit for bit (read with the first bit at either end).
C6_BitForBit ==
    pc = "idle" =>
        \A N \in 0 .. NumBits :
            \A F \in Streams(Self, Refills(Self, N)) :
                LET whole == bits(Self, N, F)
                    ones == one_by_one(Self, N, F)
                IN  whole.thrown = "none" =>
                        /\ ones.thrown = "none"
                        /\ \/ whole.result = MsbFirst(ones.out)
                           \/ whole.result = LsbFirst(ones.out)

\* C6 as amended: for N >= 1, N calls bits(1) consume the same keystream and leave the
\* same state as bits(N), whose value holds their bits word by word: the
\* groups of bits of each keystream word in order from the most
\* significant end, each group with its first bit least significant.  It is
\* their concatenation (first bit least significant) when the N bits come
\* from one word.
C6_WordByWord ==
    pc = "idle" =>
        \A N \in 1 .. NumBits :
            \A F \in Streams(Self, Refills(Self, N)) :
                LET whole == bits(Self, N, F)
                    ones == one_by_one(Self, N, F)
                IN  whole.thrown = "none" =>
                        /\ ones.thrown = "none"
                        /\ ones.G = whole.G
                        /\ whole.result = WordGroups(ones.out, m_num_bits)
                        /\ (N <= m_num_bits \/ (m_num_bits = 0 /\ N <= WordBits))
                               => whole.result = LsbFirst(ones.out)

\* bits has left a full reservoir word whose two low bits differ and a
\* next word that differs from both ends: bits(3) crosses the word boundary.
C6_Witness ==
    /\ pc = "idle"
    /\ call.op = "bits"
    /\ ret.kind = "value"
    /\ m_num_bits = WordBits
    /\ m_bits_buffer = 1
    /\ m_word_buffer_next = 1
    /\ m_word_buffer[1] = 1

C11_UsageErrors ==
    /\ (call.op = "bits" /\ call.n > NumBits) => ret.kind = "invalid_argument"
    /\ (call.op \in DrawOps /\ call.min > call.max)
          => (pc = "idle" /\ ret.kind = "invalid_argument")

\* bits was called with too large an n on a generator that has served bits.
C11_Witness ==
    /\ call.op = "bits"
    /\ call.n > NumBits
    /\ ret.kind = "invalid_argument"
    /\ handed > 0

\* C12: construction throws invalid_argument exactly when the label is
\* longer than 4 bytes or holds a zero byte; otherwise it leaves counter 0,
\* the word cursor at the end of an empty buffer, an empty reservoir and the
\* sampler pair (range, value) = (1, 0).
C12_Construction ==
    call.op = "Random" =>
        LET refused == \/ Len(call.v) > 4
                       \/ \E i \in 1 .. Len(call.v) : call.v[i] = 0
        IN  /\ refused <=> pc = "dead"
            /\ refused => ret.kind = "invalid_argument"
            /\ ~refused =>
                  /\ pc = "idle"
                  /\ m_counter = 0
                  /\ m_word_buffer_next = WordsPerBlock
                  /\ m_num_bits = 0
                  /\ m_bits_buffer = 0
                  /\ m_number_range = 1
                  /\ m_number_buffer = 0

\* A generator was constructed from a label of four bytes, the largest
\* byte among them, and the largest test id.
C12_Witness ==
    /\ call.op = "Random"
    /\ pc = "idle"
    /\ Len(call.v) = 4
    /\ call.v[4] = 255
    /\ call.n = 2147483647

\* The retained pair of the sampler is in order.
SamplerPairOk(range, value) ==
    /\ 0 <= value
    /\ value < range
    /\ range <= NumMod - 1

\* C13: the retained pair satisfies 0 <= value < range <= 2^64 - 1 in every
\* state, between calls and at every point of a loop iteration: after the
\* range is shifted (line 212), after the value is shifted (213) and after
\* the fresh bits are OR-ed in (214); the leading zeros are never counted
\* of 0 and neither shift loses a bit.
C13_SamplerPair ==
    /\ SamplerPairOk(m_number_range, m_number_buffer)
    /\ pc = "loop" =>
          \A zeros \in clzll(m_number_range) :
             LET range == m_number_range * 2 ^ zeros
                 value == m_number_buffer * 2 ^ zeros
             IN  /\ SamplerPairOk(range, m_number_buffer)
                 /\ SamplerPairOk(range, value)
                 /\ refill_shift(Self, zeros).m_number_range = range
                 /\ refill_shift(Self, zeros).m_number_buffer = value
                 /\ \A F \in Streams(Self, Refills(Self, zeros)) :
                       LET b == bits(refill_shift(Self, zeros), zeros, F)
                       IN  b.thrown = "none" =>
                              /\ b.result < 2 ^ zeros
                              /\ BitOr(value, b.result) = value + b.result
                              /\ SamplerPairOk(range, BitOr(value, b.result))

\* A draw is in its loop after a rejection that retained a value above 0.
C13_Witness ==
    /\ pc = "loop"
    /\ m_number_range > 2
    /\ m_number_buffer > 0
    /\ handed > 0

\* C14 as stated: bits(0) returns 0 and leaves the generator as it was,
\* in every state between calls, that of a new generator included.
C14_ZeroBitsNoEffect ==
    pc = "idle" =>
        \A F \in Streams(Self, Refills(Self, 0)) :
            LET r == bits(Self, 0, F)
            IN  /\ r.thrown = "none"
                /\ r.result = 0
                /\ r.G = Self

\* C14 as amended: bits(0) returns 0 and hands out no keystream bit: every
\* call of bits after it returns what it returns without it, and leaves the
\* same state.  It leaves the generator as it was, except for a generator
\* that has loaded no word yet: there it asks for the first block and loads
\* its first word (counter + 1, cursor 1, a full reservoir).
C14_ZeroBitsHandsNothing ==
    pc = "idle" =>
        \A N \in 0 .. NumBits :
            \A F \in Streams(Self, Refills(Self, N) + Refills(Self, 0)) :
                LET r == bits(Self, 0, F)
                    after == bits(r.G, N, F)
                    without == bits(Self, N, F)
                IN  /\ r.thrown = "none"
                    /\ r.result = 0
                    /\ m_num_bits > 0 => r.G = Self
                    /\ m_num_bits = 0 =>
                          /\ m_word_buffer_next = WordsPerBlock
                          /\ r.G = [Self EXCEPT
                                       !.m_counter = m_counter + 1,
                                       !.m_word_buffer = chacha_block(F, m_nonce, m_counter),
                                       !.m_word_buffer_next = 1,
                                       !.m_bits_buffer = chacha_block(F, m_nonce, m_counter)[0],
                                       !.m_num_bits = WordBits]
                    /\ after.thrown = without.thrown
                    /\ after.result = without.result
                    /\ after.G = without.G

\* bits(0) was the first call on a new generator and loaded a word.
C14_Witness ==
    /\ pc = "idle"
    /\ call.op = "bits"
    /\ call.n = 0
    /\ calls = 1
    /\ ret = Value(0)
    /\ handed = 0
    /\ m_counter = 1
    /\ m_num_bits = WordBits

\* C15 as stated: a draw with min = max returns min from its first
\* iteration, in every state.
C15_SingleValueReturns ==
    (pc = "loop" /\ call.op \in DrawOps /\ call.min = call.max) =>
        \A zeros \in clzll(m_number_range) :
            \A F \in Streams(Self, Refills(Self, zeros)) :
                LET s == uniform_step(Self, call.n, zeros, F)
                IN  /\ s.thrown = "none"
                    /\ s.accept
                    /\ returned(call.op, call.min, accepted_value(call.lo, s.in_group))
                          = call.min

\* C15 as amended: a draw with min = max never takes the rejection branch:
\* its first iteration returns min, unless the bits call of its top-up
\* fails with the counter overflow, which ends the draw with that error.
C15_SingleValueNeverRejected ==
    /\ (pc = "loop" /\ call.op \in DrawOps /\ call.min = call.max) =>
          \A zeros \in clzll(m_number_range) :
              \A F \in Streams(Self, Refills(Self, zeros)) :
                  LET s == uniform_step(Self, call.n, zeros, F)
                  IN  \/ s.thrown = "runtime_error"
                      \/ /\ s.thrown = "none"
                         /\ s.accept
                         /\ returned(call.op, call.min,
                                     accepted_value(call.lo, s.in_group)) = call.min
    /\ (DrawReturned /\ call.min = call.max) => ret.value = call.min

\* A draw over a single value other than 0 has returned, on a generator
\* that has served bits.
C15_Witness ==
    /\ DrawReturned
    /\ call.min = call.max
    /\ call.min # 0
    /\ ret.value = call.min
    /\ handed > 0

\* C20: uniform_uint64(0, 2^64 - 1) does what bits(64) does from the same
\* state, returns its value (or lets its exception through) and leaves the
\* retained pair of the sampler as it was.
C20_FullRangeIsBits ==
    [][(/\ pc = "idle"
        /\ calls' = calls + 1
        /\ call'.op = "uniform_uint64"
        /\ call'.min = 0
        /\ call'.max = NumMod - 1)
       => /\ pc' = "idle"
          /\ m_number_range' = m_number_range
          /\ m_number_buffer' = m_number_buffer
          /\ \E F \in Streams(Self, Refills(Self, NumBits)) :
                LET r == bits(Self, NumBits, F)
                IN  /\ m_counter' = r.G.m_counter
                    /\ m_word_buffer' = r.G.m_word_buffer
                    /\ m_word_buffer_next' = r.G.m_word_buffer_next
                    /\ m_bits_buffer' = r.G.m_bits_buffer
                    /\ m_num_bits' = r.G.m_num_bits
                    /\ ret' = IF r.thrown = "none" THEN Value(r.result)
                                                   ELSE Thrown(r.thrown)
                    /\ r.thrown = "none" => handed' = handed + NumBits]_vars

\* The full-range draw has returned on a generator whose sampler retains a
\* pair from an earlier draw.
C20_Witness ==
    /\ pc = "idle"
    /\ call.op = "uniform_uint64"
    /\ call.min = 0
    /\ call.max = NumMod - 1
    /\ ret.kind = "value"
    /\ m_number_range > 1

\* ----------------------------------------------------------- Reader
\* The characters a Reader has consumed: those extracted from the stream,
\* less the one held in m_next_char.
Consumed(R) == IF R.m_eof THEN R.m_got ELSE R.m_got - 1

\* The text a Reader has not consumed, and the text its last call consumed.
Unread(R) == SubSeq(R.m_input, Consumed(R) + 1, Len(R.m_input))

Taken == SubSeq(rd.R.m_input, Consumed(rd.before) + 1, Consumed(rd.R))

\* Whitespace other than the newline.
InLine(c) == isspace(c) /\ c # "\n"

\* The length of the longest prefix of t made of in-line whitespace, and of
\* digits.
BlankPrefix(t) ==
    CHOOSE k \in 0 .. Len(t) :
        /\ \A i \in 1 .. k : InLine(t[i])
        /\ k = Len(t) \/ ~InLine(t[k + 1])

DigitPrefix(t) ==
    CHOOSE k \in 0 .. Len(t) :
        /\ \A i \in 1 .. k : isdigit(t[i])
        /\ k = Len(t) \/ ~isdigit(t[k + 1])

\* The number a string of digits denotes.
RECURSIVE NumericValue(_)
NumericValue(digits) ==
    IF digits = <<>> THEN 0
    ELSE 10 * NumericValue(SubSeq(digits, 1, Len(digits) - 1))
         + DigitValue(digits[Len(digits)])

NewlinesIn(t) == Cardinality({i \in 1 .. Len(t) : t[i] = "\n"})

\* C16: the position a Reader holds is the 1-based position of the next
\* unread character: m_line is 1 + the newlines consumed, m_column is 1 + the
\* characters consumed since the last newline, m_next_char is that
\* character (at the end of the file: none).  An error is reported with the
\* position at which the failed call stopped reading, and no call advances
\* beyond the end of the file.
C16_Position ==
    rd.R.state # "none" =>
        LET R == rd.R
            done == SubSeq(R.m_input, 1, Consumed(R))
            breaks == {i \in 1 .. Len(done) : done[i] = "\n"}
            last_break == IF breaks = {} THEN 0
                          ELSE CHOOSE i \in breaks : \A j \in breaks : j <= i
        IN  /\ Consumed(R) \in 0 .. Len(R.m_input)
            /\ Consumed(R) >= Consumed(rd.before)
            /\ R.m_line = 1 + NewlinesIn(done)
            /\ R.m_column = 1 + Len(done) - last_break
            /\ R.m_eof <=> Consumed(R) = Len(R.m_input)
            /\ ~R.m_eof => R.m_next_char = R.m_input[Consumed(R) + 1]
            /\ R.state # "thrown"
            /\ R.state = "exited" =>
                  /\ R.err.line = 1 + NewlinesIn(done)
                  /\ R.err.column = 1 + Len(done) - last_break

\* A call failed on the second line, after a newline and one more character.
C16_Witness ==
    /\ rd.R.state = "exited"
    /\ rd.R.err.line = 2
    /\ rd.R.err.column = 2
    /\ Consumed(rd.R) = 3

\* C17: what read_int finds at the unread text: after the in-line whitespace
\* (skipped in permissive mode only) an optional '-' and a run of digits.
\* Strict mode fails on a leading zero and on "-0"; both modes fail on a
\* value outside [min, max] and, for an unsigned type, on a '-'; permissive
\* mode returns the value of any other integer, leading zeros or not, and
\* consumes the whitespace and the integer.
C17_ReadInt ==
    rd.call.op = "read_int" =>
        LET B == rd.before
            R == rd.R
            t == Unread(B)
            skip == IF B.m_strictness = "permissive" THEN BlankPrefix(t) ELSE 0
            u == SubSeq(t, skip + 1, Len(t))
            minus == Len(u) >= 1 /\ u[1] = "-"
            v == IF minus THEN Tail(u) ELSE u
            k == DigitPrefix(v)
            digits == SubSeq(v, 1, k)
            value == IF minus THEN 0 - NumericValue(digits) ELSE NumericValue(digits)
            unsigned_minus == rd.call.T = "unsigned" /\ minus
        IN  /\ (/\ B.m_strictness = "strict"
                /\ \/ k >= 2 /\ digits[1] = "0"
                   \/ minus /\ digits = <<"0">>)
               => R.state = "exited"
            /\ (k >= 1 /\ (value < rd.call.min \/ value > rd.call.max))
               => R.state = "exited"
            /\ unsigned_minus => R.state = "exited"
            /\ (/\ B.m_strictness = "permissive"
                /\ k >= 1
                /\ ~unsigned_minus
                /\ value >= rd.call.min
                /\ value <= rd.call.max)
               => /\ R.state = "running"
                  /\ rd.res = value
                  /\ Consumed(R) = Consumed(B) + skip + (IF minus THEN 1 ELSE 0) + k

\* A permissive read_int has skipped a blank and returned 1 from "01".
C17_Witness ==
    /\ rd.call.op = "read_int"
    /\ rd.R.state = "running"
    /\ rd.before.m_strictness = "permissive"
    /\ rd.res = 1
    /\ Taken = <<" ", "0", "1">>

\* C18: strict read_space consumes one ' ' and fails, consuming nothing,
\* before anything else; permissive read_space consumes the in-line
\* whitespace before it, at least one character and never a newline, and
\* fails when there is none.  A strict list read that succeeds has consumed
\* its n elements separated by single spaces.
C18_ReadSpace ==
    /\ rd.call.op = "read_space" =>
          LET B == rd.before
              R == rd.R
              blanks == BlankPrefix(Unread(B))
          IN  /\ B.m_strictness = "strict" =>
                    IF Unread(B) # <<>> /\ Unread(B)[1] = " "
                    THEN R.state = "running" /\ Taken = <<" ">>
                    ELSE R.state = "exited" /\ Taken = <<>>
              /\ B.m_strictness = "permissive" =>
                    IF blanks >= 1
                    THEN /\ R.state = "running"
                         /\ Len(Taken) = blanks
                         /\ \A i \in 1 .. Len(Taken) : InLine(Taken[i])
                    ELSE R.state = "exited" /\ Taken = <<>>
    /\ (/\ rd.call.op \in {"read_strings", "read_ints", "read_reals"}
        /\ rd.before.m_strictness = "strict"
        /\ rd.R.state = "running")
       => /\ Cardinality({i \in 1 .. Len(Taken) : isspace(Taken[i])}) = rd.call.n - 1
          /\ \A i \in 1 .. Len(Taken) :
                isspace(Taken[i]) =>
                    /\ Taken[i] = " "
                    /\ i > 1
                    /\ i < Len(Taken)
                    /\ ~isspace(Taken[i + 1])

\* A strict read_ints has read two integers separated by one space.
C18_Witness ==
    /\ rd.call.op = "read_ints"
    /\ rd.before.m_strictness = "strict"
    /\ rd.R.state = "running"
    /\ rd.res = <<1, 0>>
    /\ Taken = <<"1", " ", "0">>

\* C19: a strict read_real that has read digits and stopped in front of an
\* 'e' fails, and reports the position of that 'e'.
C19_ExponentRejected ==
    (/\ rd.call.op = "read_real"
     /\ rd.before.m_strictness = "strict"
     /\ rd.R.m_next_char = "e"
     /\ \E i \in 1 .. Len(Taken) : isdigit(Taken[i]))
    => /\ rd.R.state = "exited"
       /\ rd.R.err.line = rd.R.m_line
       /\ rd.R.err.column = rd.R.m_column

\* The keystream bits of the current block that G has not handed out.
Unused(G) == WordBits * (WordsPerBlock - G.m_word_buffer_next) + G.m_num_bits

\* C21: in every iteration of a ranged draw the top-up takes z bits from the
\* keystream, z the number of leading zero bits of range, and no more;
\* after it the top bit of range is set and value is the old value shifted
\* left by z with the fresh bits in its low z bits; the partition of the
\* iteration works on this pair.
C21_TopUp ==
    pc = "loop" =>
        \A zeros \in clzll(m_number_range) :
            /\ 2 ^ (NumBits - zeros - 1) <= m_number_range
            /\ m_number_range < 2 ^ (NumBits - zeros)
            /\ \A F \in Streams(Self, Refills(Self, zeros)) :
                  LET b == bits(refill_shift(Self, zeros), zeros, F)
                      s == uniform_step(Self, call.n, zeros, F)
                      range == b.G.m_number_range
                      value == m_number_buffer * 2 ^ zeros + b.result
                      p == partition(range, value, call.n)
                  IN  b.thrown = "none" =>
                         /\ Unused(b.G) + zeros = Unused(Self) + BitsPerBlock * Len(b.fed)
                         /\ s.drawn = zeros
                         /\ range = m_number_range * 2 ^ zeros
                         /\ NumMod \div 2 <= range
                         /\ range < NumMod
                         /\ b.result < 2 ^ zeros
                         /\ value < NumMod
                         /\ value \div 2 ^ zeros = m_number_buffer
                         /\ value % 2 ^ zeros = b.result
                         /\ s.accept = p.accept
                         /\ s.in_group = p.in_group
                         /\ s.G.m_number_range = p.m_number_range
                         /\ s.G.m_number_buffer = p.m_number_buffer

\* An iteration is about to top up the pair (3, 2) by two bits with one bit
\* left in the reservoir word.
C21_Witness ==
    /\ pc = "loop"
    /\ m_number_range = 3
    /\ m_number_buffer = 2
    /\ m_num_bits = 1

\* C22 as stated: between calls the reservoir word holds 0 to 31 unused
\* bits (scaled: 0 to WordBits - 1).
C22_ReservoirBelowWord ==
    pc = "idle" => m_num_bits \in 0 .. WordBits - 1

\* C22 as amended: in every state the reservoir word holds 0 to 32 unused
\* bits (scaled: 0 to WordBits): none only before the first word is
\* loaded, 1 to 32 ever after, a full word included.
C22_ReservoirUpToWord ==
    /\ m_num_bits \in 0 .. WordBits
    /\ m_num_bits = 0 =>
          /\ m_counter = 0
          /\ m_word_buffer_next = WordsPerBlock
          /\ passed = <<>>
          /\ handed = 0
    /\ passed # <<>> => m_num_bits \in 1 .. WordBits

\* A call of bits has returned bits and left a full word in the reservoir.
C22_Witness ==
    /\ pc = "idle"
    /\ call.op = "bits"
    /\ call.n > 0
    /\ ret.kind = "value"
    /\ m_num_bits = WordBits

\* C27: the reservoir word holds no bit at or above position m_num_bits, in
\* every state; so the OR of the whole word into the shifted result, when
\* bits drains the reservoir, appends exactly the m_num_bits unused bits.
C27_NoStaleBits ==
    /\ m_bits_buffer < 2 ^ m_num_bits
    /\ \A result \in 0 .. 2 ^ (NumBits - m_num_bits) - 1 :
          /\ drain(Self, result) = result * 2 ^ m_num_bits + m_bits_buffer
          /\ drain(Self, result) % 2 ^ m_num_bits = m_bits_buffer

\* The reservoir word is partly used and its remaining bit is set.
C27_Witness ==
    /\ pc = "idle"
    /\ m_num_bits = 1
    /\ m_bits_buffer = 1
    /\ handed > 0

\* Two numbers agree in every bit below position lo and above position hi.
SameOutside(a, b, lo, hi) ==
    /\ a % 2 ^ lo = b % 2 ^ lo
    /\ a \div 2 ^ (hi + 1) = b \div 2 ^ (hi + 1)

\* C23 as stated: the nonce of a constructed generator differs from the
\* test id in bits 4 to 11 only.
C23_NonceBits4To11 ==
    (call.op = "Random" /\ pc = "idle") => SameOutside(m_nonce, call.n, 4, 11)

\* C23 as amended: the nonce of a constructed generator differs from the
\* test id in bits 4 to 14 only (byte i, shifted by 4 + i, reaches bit
\* 11 + i), and only by bits set: every bit of the test id stays set.
C23_NonceBits4To14 ==
    (call.op = "Random" /\ pc = "idle") =>
        /\ SameOutside(m_nonce, call.n, NonceShift, NonceShift + MaxNameLen - 1 + 7)
        /\ BitAnd(m_nonce, call.n) = call.n

\* A label of four bytes has set bit 14 of the nonce of test id 0.
C23_Witness ==
    /\ call.op = "Random"
    /\ pc = "idle"
    /\ call.n = 0
    /\ Len(call.v) = 4
    /\ m_nonce >= 2 ^ 14

\* The labels the constructor accepts.
ValidLabels == {name \in AllLabels : Random_ctor(name, 0).ok}

SignedOps == {"uniform_int64", "uniform_int"}

\* C24: a signed draw with min <= max, the ends of the type included, does
\* what uniform_uint64(0, max - min) does: it starts as that call starts
\* (the loop with the same width, or bits(64) for the whole type), every
\* iteration is that call's iteration, and it returns min + d for the d that
\* call returns, as a number: nothing wraps.  The narrow entry points
\* return the value of the wide draw.
C24_SignedIsBiased ==
    [][/\ (/\ pc = "idle"
           /\ calls' = calls + 1
           /\ call'.op \in SignedOps
           /\ call'.min <= call'.max)
          => LET e == uniform_uint64_entry(0, call'.max - call'.min)
             IN  /\ e.how # "throw"
                 /\ e.how = "loop" =>
                       /\ pc' = "loop"
                       /\ call'.n = e.n
                       /\ call'.lo = 0
                       /\ UNCHANGED genvars
                 /\ e.how = "bits" =>
                       /\ pc' = "idle"
                       /\ \E F \in Streams(Self, Refills(Self, NumBits)) :
                             LET r == bits(Self, NumBits, F)
                             IN  /\ Self' = r.G
                                 /\ ret' = IF r.thrown = "none"
                                           THEN Value(call'.min + r.result)
                                           ELSE Thrown(r.thrown)
       /\ (pc = "loop" /\ call.op \in DrawOps)
          => \E zeros \in clzll(m_number_range) :
             \E F \in Streams(Self, Refills(Self, zeros)) :
                LET s == uniform_step(Self, call.n, zeros, F)
                    d == accepted_value(0, s.in_group)
                IN  /\ Self' = s.G
                    /\ (s.thrown = "none" /\ s.accept) =>
                          /\ pc' = "idle"
                          /\ ret' = Value(IF call.op \in SignedOps
                                          THEN call.min + d
                                          ELSE accepted_value(call.min, s.in_group))]_vars

\* uniform_int64(INT64_MIN, -1) has returned -1.
C24_Witness ==
    /\ DrawReturned
    /\ call.op = "uniform_int64"
    /\ call.min = MinInt64
    /\ call.max = -1
    /\ ret.value = -1

\* C25: a call that fails with invalid_argument leaves the generator as it
\* was: nonce, counter, word buffer and cursor, reservoir and sampler pair
\* (and with them every later output).
C25_UsageErrorKeepsState ==
    [][(/\ pc = "idle"
        /\ calls' = calls + 1
        /\ ret'.kind = "invalid_argument")
       => /\ pc' = "idle"
          /\ Self' = Self
          /\ UNCHANGED <<genvars, handed, passed>>]_vars

\* A ranged draw with min > max has failed on a generator that holds
\* unused bits and a retained sampler pair.
C25_Witness ==
    /\ pc = "idle"
    /\ call.op \in DrawOps
    /\ call.min > call.max
    /\ ret.kind = "invalid_argument"
    /\ m_number_range > 1
    /\ m_num_bits > 0

\* C7: no counter value is passed to the block function twice in the
\* lifetime of a generator, the calls made after the overflow error
\* included.
C7_NoCounterTwice ==
    \A a, b \in 1 .. Len(passed) : a # b => passed[a] # passed[b]

\* The call of test_chacha.
TestCall ==
    /\ cc.stage # "none"
    /\ cc.key = test_key
    /\ cc.nonce = test_nonce
    /\ cc.counter = test_counter

\* C8: chacha<20> on the key, nonce and counter of test_chacha returns the
\* published block; it starts from the constants in words 0-3, the key in
\* words 4-11, the counter (low, high) in words 12-13 and the nonce (low,
\* high) in words 14-15, and returns after ten double rounds.
C8_KnownAnswer ==
    TestCall =>
        /\ \A i \in 0 .. 3 : cc.input[i] = sigma[i + 1]
        /\ \A i \in 4 .. 11 : cc.input[i] = test_key[i - 3]
        /\ cc.input[12] = <<0, 1>> /\ cc.input[13] = <<0, 0>>
        /\ cc.input[14] = test_nonce[2] /\ cc.input[15] = test_nonce[1]
        /\ cc.stage = "done" =>
              /\ cc.double_round = 10
              /\ cc.x = expected_output

\* The call of test_chacha has returned.
C8_Witness == TestCall /\ cc.stage = "done"

\* Two sequences hold the same elements, each as often.
SameElements(v, w) ==
    /\ Len(v) = Len(w)
    /\ \A x \in {v[k] : k \in 1 .. Len(v)} \cup {w[k] : k \in 1 .. Len(w)} :
           Cardinality({k \in 1 .. Len(v) : v[k] = x})
               = Cardinality({k \in 1 .. Len(w) : w[k] = x})

\* C9: whatever the array and the state of the generator, the array shuffle
\* is working on or has returned is a permutation of the array it was given.
C9_ShufflePermutes ==
    call.op = "shuffle" => SameElements(call.v, call.orig)

\* shuffle has returned an array of the greatest length, with a repeated
\* element, in another order than it was given.
C9_Witness ==
    /\ pc = "idle"
    /\ call.op = "shuffle"
    /\ ret.kind = "value"
    /\ Len(call.v) = MaxLen
    /\ call.orig[1] = call.orig[MaxLen]
    /\ call.v # call.orig
    /\ calls = 2

RECURSIVE DrawTuples(_, _)
\* The tuples of draws shuffle can make from index i on, on len elements.
DrawTuples(i, len) ==
    IF i >= len THEN {<<>>}
    ELSE {<<j>> \o rest : j \in 0 .. shuffle_max(i), rest \in DrawTuples(i + 1, len)}

\* The arrangements of a sequence of distinct elements.
Arrangements(v) ==
    {w \in [1 .. Len(v) -> {v[k] : k \in 1 .. Len(v)}] :
        \A a, b \in 1 .. Len(v) : a # b => w[a] # w[b]}

Distinct(v) == \A a, b \in 1 .. Len(v) : a # b => v[a] # v[b]

\* C10: for an array of distinct elements, each arrangement of the array is
\* what shuffle leaves for exactly one tuple of draws (j_1, ..., j_{n-1}),
\* and the array shuffle leaves is the one its draws determine.
C10_ShuffleBijective ==
    (call.op = "shuffle" /\ Distinct(call.orig)) =>
        /\ \A w \in Arrangements(call.orig) :
               Cardinality({js \in DrawTuples(1, Len(call.orig)) :
                   shuffle_from(call.orig, 1, js) = w}) = 1
        /\ call.v = shuffle_from(call.orig, 1, call.js)
        /\ (pc = "idle" /\ ret.kind = "value") =>
               call.js \in DrawTuples(1, Len(call.orig))

\* shuffle has returned the reverse of an array of the greatest length.
C10_Witness ==
    /\ pc = "idle"
    /\ call.op = "shuffle"
    /\ ret.kind = "value"
    /\ Len(call.orig) = MaxLen
    /\ Distinct(call.orig)
    /\ \A k \in 1 .. MaxLen : call.v[k] = call.orig[MaxLen + 1 - k]
=============================================================================
